---- MODULE Spec2Model ----
(***************************************************************************)
(* Model of the teslamate location server (src/main.go): the telemetry     *)
(* store filled by the MQTT messageHandler and read by the HTTP handlers,  *)
(* the runtime configuration and the admin session gate.                   *)
(***************************************************************************)
EXTENDS Integers, Sequences, FiniteSets, TLC

VARIABLES
    currentLocation,  \* the package-level Location record
    locationMutex,    \* sync.RWMutex: [w |-> writer holds it, r |-> set of readers holding it,
                      \*                ww |-> a writer waits for it]
    now,              \* the wall clock read by time.Now()
    nmsgs,            \* number of bus messages handed to messageHandler so far
    hpc,              \* messageHandler position: "idle" | "locked"
    hmsg,             \* the message messageHandler is processing
    pending,          \* the assignments messageHandler still has to execute
    entry,            \* currentLocation as it was when messageHandler took the lock
    routes,           \* the zero route and the routes of the documents received that set a route
    applied,          \* per scalar field: the values successfully decoded for it, in order
    rpc,              \* per reader: "idle" | "copy" | "enrich" | "answered"
    rpos,             \* per reader: index of the next field to copy
    rep,              \* per reader: the endpoint being served, "location" | "overlay"
    snap,             \* per reader: the local copy of currentLocation
    env,              \* the environment the process was started with
    config,           \* the package-level Config record
    configs,          \* the Config values the program was started with or was asked to store
    jar,              \* the admin-session cookie the browser holds (its decoded Values)
    ppc,              \* per POST /admin/config request: "idle" | "write" | "encode"
    ppos,             \* per POST /admin/config request: index of the next Config field
    pnew,             \* per POST /admin/config request: the decoded newConfig
    pout,             \* per POST /admin/config request: the Config being encoded as the answer
    preq,             \* per POST /admin/config request: the session it carried and when it arrived
    cpc,              \* GET /config request: "idle" | "encode"
    cpos,             \* GET /config request: index of the next Config field
    cout,             \* GET /config request: the Config being encoded as the answer
    nreqs,            \* number of HTTP requests received so far
    resp,             \* the last answer sent to a client of the admin surface or of /config
    rans,             \* per reader: the answer it has written, until the handler returns
    pover,            \* per POST /admin/config request: whether another replacement ran during its own
    kept,             \* copies of the cookies issued at login that their receivers have kept
    lookup,           \* the weather provider's answer to the last getWeather call
    weather,          \* the WeatherData the last getWeather call returned
    timeCall,         \* the last getLocalTime call: the provider's answer, the clock, the result
    placeCall,        \* the last getLocationName call: the answer, the coordinates, the result
    distCall          \* the last calculateDistance call: the two points and the result

storeVars == <<currentLocation, locationMutex, nmsgs, hpc, hmsg, pending, entry,
               routes, applied, rpc, rpos, rep, snap, rans>>

adminVars == <<config, configs, jar, kept, ppc, ppos, pnew, pout, preq, pover, cpc, cpos,
               cout, nreqs, resp>>

adapterVars == <<lookup, weather, timeCall, placeCall, distCall>>

vars == <<storeVars, now, env, adminVars, adapterVars>>

----------------------------------------------------------------------------
(* Bounds *)

MaxMsgs == 2
MaxReqs == 3

\* The clock advances in steps of TickHours up to MaxNow (hours since start).
TickHours == 24
MaxNow == 48

----------------------------------------------------------------------------
(* Location: the fields of the struct, in declaration order *)

ScalarFields == <<"Latitude", "Longitude", "Speed", "Heading", "Battery", "Range",
                  "State", "Elevation">>

RouteFields == <<"Destination", "DestinationLatitude", "DestinationLongitude",
                 "MinutesToArrival", "MilesToArrival", "EnergyAtArrival">>

LocationFields == ScalarFields \o RouteFields \o <<"UpdatedAt">>

Range(s) == {s[i] : i \in 1..Len(s)}

\* string(msg.Payload()) of an empty message: the empty string.
EmptyPayload == [kind |-> "text", chars |-> <<>>]

\* The zero value of a Location: "" for the strings (State holds the payload
\* it was copied from), 0 for the numbers, time.Time{} as 0.
ZeroLocation ==
    [f \in Range(LocationFields) |->
        CASE f = "State" -> EmptyPayload
          [] f = "Destination" -> ""
          [] OTHER -> 0]

RoutePart(loc) == [f \in Range(RouteFields) |-> loc[f]]

ZeroRoute == RoutePart(ZeroLocation)

----------------------------------------------------------------------------
(* Topics *)

\* Topics are named by their last segment; all of them start with
\* "teslamate/cars/1/".
FloatTopics == {"latitude", "longitude", "speed", "heading", "battery_level",
                "est_battery_range_km", "elevation"}

SubscribedTopics == FloatTopics \cup {"state", "active_route"}

\* One topic the handler has no case for.
Topics == SubscribedTopics \cup {"odometer"}

\* The Location field each scalar topic is stored in.
FieldOf(topic) ==
    CASE topic = "latitude" -> "Latitude"
      [] topic = "longitude" -> "Longitude"
      [] topic = "speed" -> "Speed"
      [] topic = "heading" -> "Heading"
      [] topic = "battery_level" -> "Battery"
      [] topic = "est_battery_range_km" -> "Range"
      [] topic = "state" -> "State"
      [] topic = "elevation" -> "Elevation"

----------------------------------------------------------------------------
(* Payloads.  A payload is either plain text, kept as its characters, or the
   text of a JSON object, kept as the object: a record giving for each key of
   the active_route document the value the text holds for it. *)

Text(cs) == [kind |-> "text", chars |-> cs]

TextPayloads ==
    { Text(<<>>), Text(<<"7">>), Text(<<"-", "3">>), Text(<<"a", "b", "c">>),
      Text(<<"1", "x">>), Text(<<"n", "u", "l", "l">>) }

Absent == [t |-> "absent"]
Null == [t |-> "null"]
Num(n) == [t |-> "num", v |-> n]
Str(s) == [t |-> "str", v |-> s]

RouteKeys == {"destination", "energy_at_arrival", "miles_to_arrival",
              "minutes_to_arrival", "traffic_minutes_delay", "latitude",
              "longitude", "error"}

DestinationName(k) == IF k = 1 THEN "Home" ELSE "Work"

\* A complete active_route document for route k with the given error value;
\* latitude and longitude are the members of its "location" object.
RouteDoc(k, e) ==
    [kind |-> "json",
     obj |-> [destination |-> Str(DestinationName(k)),
              energy_at_arrival |-> Num(40 + k),
              miles_to_arrival |-> Num(30 + k),
              minutes_to_arrival |-> Num(20 + k),
              traffic_minutes_delay |-> Num(50 + k),
              latitude |-> Num(k),
              longitude |-> Num(10 + k),
              error |-> e]]

EmptyDoc == [kind |-> "json", obj |-> [key \in RouteKeys |-> Absent]]

With(doc, key, val) == [doc EXCEPT !.obj[key] = val]

RoutePayloads ==
    { RouteDoc(1, e) : e \in {Absent, Null, Str(""), Str("null"), Str("no_route")} }
    \cup { RouteDoc(2, Absent), RouteDoc(2, Str("offline")) }
    \cup { With(EmptyDoc, "error", Str("no_route")),
           With(EmptyDoc, "destination", Str("Work")),
           With(RouteDoc(1, Absent), "destination", Num(5)) }

Payloads == TextPayloads \cup RoutePayloads

\* The messages the bus delivers: any text on any topic; a JSON document on
\* the route topic, and one such document on each of the other topics.
Messages ==
    {m \in [topic : Topics, payload : Payloads] :
        m.topic = "active_route" \/ m.payload \in TextPayloads \cup {RouteDoc(1, Absent)}}

NoMsg == [topic |-> "", payload |-> EmptyPayload]

----------------------------------------------------------------------------
(* strconv.ParseFloat, on the payloads above: an optional sign followed by
   one or more decimal digits is a number, anything else is an error. *)

Digits == <<"0", "1", "2", "3", "4", "5", "6", "7", "8", "9">>

IsDigit(c) == \E i \in 1..Len(Digits) : Digits[i] = c

DigitVal(c) == (CHOOSE i \in 1..Len(Digits) : Digits[i] = c) - 1

RECURSIVE DigitsVal(_)
DigitsVal(cs) ==
    IF cs = <<>> THEN 0
    ELSE 10 * DigitsVal(SubSeq(cs, 1, Len(cs) - 1)) + DigitVal(cs[Len(cs)])

AllDigits(cs) == cs # <<>> /\ \A i \in 1..Len(cs) : IsDigit(cs[i])

ParseErr == [ok |-> FALSE, v |-> 0]

ParseFloat(p) ==
    IF p.kind # "text" \/ p.chars = <<>> THEN ParseErr
    ELSE LET cs == p.chars
             signed == cs[1] \in {"-", "+"}
             ds == IF signed THEN Tail(cs) ELSE cs
         IN IF ~AllDigits(ds) THEN ParseErr
            ELSE [ok |-> TRUE, v |-> IF cs[1] = "-" THEN 0 - DigitsVal(ds) ELSE DigitsVal(ds)]

----------------------------------------------------------------------------
(* json.Unmarshal into a fresh ActiveRoute *)

ZeroActiveRoute ==
    [Destination |-> "", EnergyAtArrival |-> 0, MilesToArrival |-> 0,
     MinutesToArrival |-> 0, TrafficDelay |-> 0, Latitude |-> 0, Longitude |-> 0,
     Error |-> ""]

\* A key decodes when it is missing, null, or of the Go field's JSON type.
DecodesAs(val, type) == val.t \in {"absent", "null", type}

\* The decoded value: a missing or null key leaves the zero value.
Decoded(val, zero) == IF val.t \in {"absent", "null"} THEN zero ELSE val.v

Unmarshal(p) ==
    IF p.kind = "text"
    THEN \* the literal null decodes to nothing; other text is no JSON object
         [ok |-> p.chars = <<"n", "u", "l", "l">>, route |-> ZeroActiveRoute]
    ELSE LET o == p.obj IN
         IF /\ DecodesAs(o.destination, "str")
            /\ DecodesAs(o.error, "str")
            /\ \A key \in RouteKeys \ {"destination", "error"} : DecodesAs(o[key], "num")
         THEN [ok |-> TRUE,
               route |-> [Destination |-> Decoded(o.destination, ""),
                          EnergyAtArrival |-> Decoded(o.energy_at_arrival, 0),
                          MilesToArrival |-> Decoded(o.miles_to_arrival, 0),
                          MinutesToArrival |-> Decoded(o.minutes_to_arrival, 0),
                          TrafficDelay |-> Decoded(o.traffic_minutes_delay, 0),
                          Latitude |-> Decoded(o.latitude, 0),
                          Longitude |-> Decoded(o.longitude, 0),
                          Error |-> Decoded(o.error, "")]]
         ELSE [ok |-> FALSE, route |-> ZeroActiveRoute]

----------------------------------------------------------------------------
(* messageHandler: the assignments to currentLocation that the switch
   executes for a message, in program order, at time t. *)

RouteAvailable(route) == route.Error = "" \/ route.Error = "null"

\* Faulty variant: MilesToArrival is not assigned.
SetRouteSkipsMiles(route) ==
    << <<"Destination", route.Destination>>,
       <<"DestinationLatitude", route.Latitude>>,
       <<"DestinationLongitude", route.Longitude>>,
       <<"MinutesToArrival", route.MinutesToArrival>>,
       <<"EnergyAtArrival", route.EnergyAtArrival>> >>

\* Faulty variant: the destination's latitude is stored as the car's.
SetRouteMovesCar(route) ==
    << <<"Destination", route.Destination>>,
       <<"Latitude", route.Latitude>>,
       <<"DestinationLongitude", route.Longitude>>,
       <<"MinutesToArrival", route.MinutesToArrival>>,
       <<"MilesToArrival", route.MilesToArrival>>,
       <<"EnergyAtArrival", route.EnergyAtArrival>> >>

\* "Active route available": the six assignments from the decoded route.
SetRoute(route) ==
    << <<"Destination", route.Destination>>,
       <<"DestinationLatitude", route.Latitude>>,
       <<"DestinationLongitude", route.Longitude>>,
       <<"MinutesToArrival", route.MinutesToArrival>>,
       <<"MilesToArrival", route.MilesToArrival>>,
       <<"EnergyAtArrival", route.EnergyAtArrival>> >>

\* Faulty variant: EnergyAtArrival is not reset.
ClearRouteKeepsEnergy ==
    << <<"Destination", "">>,
       <<"DestinationLatitude", 0>>,
       <<"DestinationLongitude", 0>>,
       <<"MinutesToArrival", 0>>,
       <<"MilesToArrival", 0>> >>

\* "No active route": the six assignments of zero values.
ClearRoute ==
    << <<"Destination", "">>,
       <<"DestinationLatitude", 0>>,
       <<"DestinationLongitude", 0>>,
       <<"MinutesToArrival", 0>>,
       <<"MilesToArrival", 0>>,
       <<"EnergyAtArrival", 0>> >>

\* Faulty variant: the longitude case forgets the timestamp.
StampedTopicsOnlyLatitude == {"latitude"}

\* The topics whose case also stores time.Now() in UpdatedAt.
StampedTopics == {"latitude", "longitude"}

\* Faulty variant: the heading case assigns to Speed.
FloatAssignmentsMisrouted(topic, r, t) ==
    IF ~r.ok THEN <<>>
    ELSE IF topic \in StampedTopics
         THEN << <<FieldOf(topic), r.v>>, <<"UpdatedAt", t>> >>
         ELSE << <<IF topic = "heading" THEN "Speed" ELSE FieldOf(topic), r.v>> >>

\* Faulty variant: the error of ParseFloat is ignored and its zero result stored.
FloatAssignmentsZeroOnError(topic, r, t) ==
    IF topic \in StampedTopics
    THEN << <<FieldOf(topic), r.v>>, <<"UpdatedAt", t>> >>
    ELSE << <<FieldOf(topic), r.v>> >>

\* Faulty variant: the speed case also resets the remaining distance of the route.
FloatAssignmentsSpeedResetsMiles(topic, r, t) ==
    IF ~r.ok THEN <<>>
    ELSE IF topic \in StampedTopics
         THEN << <<FieldOf(topic), r.v>>, <<"UpdatedAt", t>> >>
         ELSE IF topic = "speed"
         THEN << <<FieldOf(topic), r.v>>, <<"MilesToArrival", 0>> >>
         ELSE << <<FieldOf(topic), r.v>> >>

\* A float case, given what ParseFloat returned: nothing on an error.
FloatAssignments(topic, r, t) ==
    IF ~r.ok THEN <<>>
    ELSE IF topic \in StampedTopics
         THEN << <<FieldOf(topic), r.v>>, <<"UpdatedAt", t>> >>
         ELSE << <<FieldOf(topic), r.v>> >>

\* The active_route case, given what json.Unmarshal returned.
RouteAssignments(u) ==
    IF ~u.ok THEN <<>>
    ELSE IF RouteAvailable(u.route) THEN SetRoute(u.route) ELSE ClearRoute

\* Faulty variant: a topic without a case of its own is stored as the state.
AssignmentsUnknownAsState(topic, payload, t) ==
    CASE topic \in FloatTopics -> FloatAssignments(topic, ParseFloat(payload), t)
      [] topic = "active_route" -> RouteAssignments(Unmarshal(payload))
      [] OTHER -> << <<"State", payload>> >>

Assignments(topic, payload, t) ==
    CASE topic \in FloatTopics -> FloatAssignments(topic, ParseFloat(payload), t)
      [] topic = "state" -> << <<"State", payload>> >>
      [] topic = "active_route" -> RouteAssignments(Unmarshal(payload))
      [] OTHER -> <<>>

----------------------------------------------------------------------------
(* Config *)

ConfigFields == <<"ShowRoute", "MapboxToken", "MapEnabled", "OverlayEnabled",
                  "TimeZoneDBToken">>

StringFields == {"MapboxToken", "TimeZoneDBToken"}

ZeroConfig == [f \in Range(ConfigFields) |-> IF f \in StringFields THEN "" ELSE FALSE]

\* The package-level initializer.
InitialConfig(e) ==
    [ShowRoute |-> TRUE, MapboxToken |-> e.MAPBOX_TOKEN, MapEnabled |-> TRUE,
     OverlayEnabled |-> TRUE, TimeZoneDBToken |-> e.TIMEZONEDB_TOKEN]

Environment ==
    [ADMIN_USERNAME |-> "admin", ADMIN_PASSWORD |-> "secret",
     MAPBOX_TOKEN |-> "mbA", TIMEZONEDB_TOKEN |-> "tzA"]

\* The environments the program may be started in: with both admin
\* credentials, without the username, without the password, without both.
Environments ==
    {[Environment EXCEPT !.ADMIN_USERNAME = username, !.ADMIN_PASSWORD = password] :
        username \in {"admin", ""}, password \in {"secret", ""}}

\* The json tag of each Config field.
KeyOf(f) ==
    CASE f = "ShowRoute" -> "show_route"
      [] f = "MapboxToken" -> "mapbox_token"
      [] f = "MapEnabled" -> "map_enabled"
      [] f = "OverlayEnabled" -> "overlay_enabled"
      [] f = "TimeZoneDBToken" -> "timezonedb_token"

Bool(b) == [t |-> "bool", v |-> b]

ConfigDoc(show, mb, map, ov, tz) ==
    [kind |-> "json",
     obj |-> [show_route |-> show, mapbox_token |-> mb, map_enabled |-> map,
              overlay_enabled |-> ov, timezonedb_token |-> tz]]

\* Request bodies sent to /admin/config: a full record, a record with one key,
\* a record with a key of the wrong type, and text that is no JSON.
ConfigBodies ==
    { ConfigDoc(Bool(FALSE), Str("mbB"), Bool(FALSE), Bool(FALSE), Str("tzB")),
      ConfigDoc(Absent, Absent, Bool(TRUE), Absent, Absent),
      ConfigDoc(Bool(TRUE), Str("mbB"), Str("yes"), Bool(TRUE), Str("tzB")),
      Text(<<"a", "b", "c">>) }

\* Faulty variant: the error of Decode is not looked at.
DecodeConfigUnchecked(body) ==
    IF body.kind = "text"
    THEN [ok |-> TRUE, cfg |-> ZeroConfig]
    ELSE [ok |-> TRUE,
          cfg |-> [f \in Range(ConfigFields) |->
                      IF DecodesAs(body.obj[KeyOf(f)],
                                   IF f \in StringFields THEN "str" ELSE "bool")
                      THEN Decoded(body.obj[KeyOf(f)], ZeroConfig[f])
                      ELSE ZeroConfig[f]]]

\* json.NewDecoder(r.Body).Decode(&newConfig) into a fresh Config.
DecodeConfig(body) ==
    IF body.kind = "text"
    THEN [ok |-> body.chars = <<"n", "u", "l", "l">>, cfg |-> ZeroConfig]
    ELSE IF \A f \in Range(ConfigFields) :
                DecodesAs(body.obj[KeyOf(f)], IF f \in StringFields THEN "str" ELSE "bool")
         THEN [ok |-> TRUE,
               cfg |-> [f \in Range(ConfigFields) |->
                           Decoded(body.obj[KeyOf(f)], ZeroConfig[f])]]
         ELSE [ok |-> FALSE, cfg |-> ZeroConfig]

----------------------------------------------------------------------------
(* Sessions.  The cookie store keeps the session's Values in the cookie the
   browser holds; a request without a cookie gets a new, empty session. *)

EmptySession == [authenticated |-> Absent, username |-> Absent, login_time |-> Absent]

\* A time.Time value, and the string time.Time.String() makes of it.
TimeValue(tm) == [t |-> "time", at |-> tm]
TimeString(tm) == [t |-> "str", v |-> tm]

SessionTimeoutHours == 24

\* The session a successful login saves.
LoginSession(sess, username, tm) ==
    [sess EXCEPT !.authenticated = Bool(TRUE),
                 !.username = Str(username),
                 !.login_time = TimeString(tm)]

\* requireAuth at time tm: whether the request is let through, and the
\* session as it is afterwards (saved to the cookie when it was changed).
requireAuth(sess, tm) ==
    IF sess.authenticated.t # "bool" \/ ~sess.authenticated.v
    THEN [ok |-> FALSE, sess |-> sess]
    ELSE IF sess.login_time.t = "time" /\ tm - sess.login_time.at > SessionTimeoutHours
         THEN [ok |-> FALSE, sess |-> [sess EXCEPT !.authenticated = Bool(FALSE)]]
         ELSE [ok |-> TRUE, sess |-> sess]

Methods == {"GET", "POST"}

\* The username and password a login form is submitted with: the right pair,
\* a wrong password, a wrong username, and nothing at all.
Forms == {<<"admin", "secret">>, <<"admin", "admin">>, <<"secret", "secret">>, <<"", "">>}

NoBody == [kind |-> "none"]
ConfigBody(c) == [kind |-> "config", cfg |-> c]
LocationBody(loc) == [kind |-> "location", loc |-> loc]
ErrorBody(text) == [kind |-> "error", text |-> text]

\* The form values serveAdminLogin reads from a POST.
Form(username, password) == [kind |-> "form", username |-> username, password |-> password]

\* An answer: the request's path and method, the body or form it carried
\* (kept for a POST that was not turned away at the gate), the status, the
\* session the request carried, the time the request arrived, and the body
\* when it is a Config.
Answer(path, method, req, status, sess, tm, body) ==
    [path |-> path, method |-> method, req |-> req, status |-> status, sess |-> sess,
     at |-> tm, body |-> body]

NoAnswer == Answer("", "", NoBody, 0, EmptySession, 0, NoBody)

NoRequest == [sess |-> EmptySession, at |-> 0, body |-> NoBody]

\* What a reader of the store has written to its client.
Reply(status, body) == [status |-> status, body |-> body]

NoReply == Reply(0, NoBody)

----------------------------------------------------------------------------
(* Enrichment adapters.  Each makes one http.Get, reads the body and decodes
   it with json.Unmarshal into a map[string]interface{}. *)

\* What the provider's answer amounts to: http.Get failed, io.ReadAll failed,
\* the body is no JSON object, the body is the text null, or a JSON object.
NetErr == [kind |-> "neterr"]
ReadErr == [kind |-> "readerr"]
Garbage == [kind |-> "text"]
NullDoc == [kind |-> "null"]
JsonDoc(o) == [kind |-> "json", obj |-> o]

Obj(o) == [t |-> "obj", v |-> o]

\* http.Get, io.ReadAll and json.Unmarshal all returned without error.
Fetched(reply) == reply.kind \in {"json", "null"}

\* result[key]: the null body leaves the map nil, where every key is missing.
Member(reply, key) == IF reply.kind = "json" THEN reply.obj[key] ELSE Absent

\* x, ok := v.(float64) with the variable left at 0.0 when ok is false.
\* The provider's numbers are kept in tenths.
Float(val) == IF val.t = "num" THEN val.v ELSE 0

\* int(x) of a float64 kept in tenths: truncation toward zero.
Trunc(n) == IF n >= 0 THEN n \div 10 ELSE -((-n) \div 10)

\* The WMO table of weatherCodeToDescription.
descriptions ==
    (0 :> "Clear sky" @@ 1 :> "Mainly clear" @@ 2 :> "Partly cloudy" @@ 3 :> "Overcast"
     @@ 45 :> "Foggy" @@ 48 :> "Depositing rime fog"
     @@ 51 :> "Light drizzle" @@ 53 :> "Moderate drizzle" @@ 55 :> "Dense drizzle"
     @@ 61 :> "Slight rain" @@ 63 :> "Moderate rain" @@ 65 :> "Heavy rain"
     @@ 71 :> "Slight snow" @@ 73 :> "Moderate snow" @@ 75 :> "Heavy snow"
     @@ 77 :> "Snow grains"
     @@ 80 :> "Slight rain showers" @@ 81 :> "Moderate rain showers"
     @@ 82 :> "Violent rain showers"
     @@ 85 :> "Slight snow showers" @@ 86 :> "Heavy snow showers"
     @@ 95 :> "Thunderstorm" @@ 96 :> "Thunderstorm with slight hail"
     @@ 99 :> "Thunderstorm with heavy hail")

weatherCodeToDescription(code) ==
    IF code \in DOMAIN descriptions THEN descriptions[code] ELSE "Unknown"

\* WeatherData{}
ZeroWeather == [Temperature |-> 0, Description |-> "", Humidity |-> 0, WindSpeed |-> 0]

\* WeatherData{Description: "Unavailable"}: the other fields are zero.
Unavailable ==
    [Temperature |-> 0, Description |-> "Unavailable", Humidity |-> 0, WindSpeed |-> 0]

\* Faulty variant: a response without current conditions is read as all zeros.
getWeatherNoCurrentCheck(reply) ==
    IF ~Fetched(reply)
    THEN Unavailable
    ELSE LET c == Member(reply, "current")
             current == IF c.t = "obj" THEN c.v
                        ELSE [temperature_2m |-> Absent, relative_humidity_2m |-> Absent,
                              wind_speed_10m |-> Absent, weather_code |-> Absent]
         IN [Temperature |-> Float(current.temperature_2m),
             Description |-> weatherCodeToDescription(Trunc(Float(current.weather_code))),
             Humidity |-> Trunc(Float(current.relative_humidity_2m)),
             WindSpeed |-> Float(current.wind_speed_10m)]

\* getWeather, given what the provider answered.
getWeather(reply) ==
    IF ~Fetched(reply)
    THEN Unavailable
    ELSE IF Member(reply, "current").t # "obj"
    THEN Unavailable
    ELSE LET current == Member(reply, "current").v
         IN [Temperature |-> Float(current.temperature_2m),
             Description |-> weatherCodeToDescription(Trunc(Float(current.weather_code))),
             Humidity |-> Trunc(Float(current.relative_humidity_2m)),
             WindSpeed |-> Float(current.wind_speed_10m)]

\* Weather codes the provider is let send: 0 .. MaxCode, beyond the table's last.
MaxCode == 100

Current(temp, hum, wind, code) ==
    Obj([temperature_2m |-> temp, relative_humidity_2m |-> hum,
         wind_speed_10m |-> wind, weather_code |-> code])

WeatherDoc(current) == JsonDoc([current |-> current])

\* Whole codes, two fractional ones, a negative one, a missing and a mistyped one.
WeatherCodes ==
    {Num(10 * k) : k \in 0..MaxCode} \cup {Num(457), Num(9), Num(-10), Absent, Str("3")}

WeatherResponses ==
    {NetErr, ReadErr, Garbage, NullDoc,
     WeatherDoc(Absent), WeatherDoc(Null), WeatherDoc(Str("sunny"))}
    \cup {WeatherDoc(Current(temp, hum, Num(123), code)) :
             temp \in {Num(215), Num(-5), Absent}, hum \in {Num(657), Null},
             code \in WeatherCodes}

NoLookup == [kind |-> "none"]

\* No call of an adapter has been made yet.
NoCall == [reply |-> NoLookup]

\* fmt.Sprintf("%.4f°, %.4f°", lat, lon): the text made of the two coordinates.
Coordinates(lat, lon) == [t |-> "coords", lat |-> lat, lon |-> lon]

\* A place name: one part, or "first, last".
PlaceName(parts) == [t |-> "name", parts |-> parts]

\* v, ok := x.(string); ok && v != ""
NonEmpty(val) == val.t = "str" /\ val.v # ""

\* The first of the keys that holds a non-empty string, as a list of at most one.
FirstOf(address, keys) ==
    LET hits == SelectSeq(keys, LAMBDA k : NonEmpty(address[k]))
    IN IF hits = <<>> THEN <<>> ELSE <<address[hits[1]].v>>

\* A display_name is kept as its comma-separated pieces, each with the
\* spaces around it counted apart from its text; the string "" has no pieces.
Piece(text) == [lead |-> TRUE, text |-> text]
TrimSpace(piece) == piece.text

\* getLocationName, given what the geocoder answered.
getLocationName(reply, lat, lon) ==
    IF ~Fetched(reply)
    THEN Coordinates(lat, lon)
    ELSE LET a == Member(reply, "address")
             parts == IF a.t # "obj" THEN <<>>
                      ELSE FirstOf(a.v, <<"suburb", "neighbourhood">>)
                           \o FirstOf(a.v, <<"city", "town", "village">>)
                           \o FirstOf(a.v, <<"state">>)
             d == Member(reply, "display_name")
         IN IF Len(parts) = 1 THEN PlaceName(parts)
            ELSE IF Len(parts) > 1 THEN PlaceName(<<parts[1], parts[Len(parts)]>>)
            ELSE IF d.t = "pieces" /\ d.v # <<>> THEN PlaceName(<<TrimSpace(d.v[1])>>)
            ELSE Coordinates(lat, lon)

Address(suburb, neighbourhood, city, town, village, state) ==
    Obj([suburb |-> suburb, neighbourhood |-> neighbourhood, city |-> city,
         town |-> town, village |-> village, state |-> state])

DisplayName(pieces) == [t |-> "pieces", v |-> pieces]

PlaceDoc(address, display) == JsonDoc([address |-> address, display_name |-> display])

\* What the geocoder can answer: failures, documents without a usable address,
\* and addresses with every combination of the six members, each with and
\* without a display name.
PlaceResponses ==
    {NetErr, ReadErr, Garbage, NullDoc,
     PlaceDoc(Absent, Absent), PlaceDoc(Str("Perth"), DisplayName(<<>>)),
     PlaceDoc(Absent, Str("")), PlaceDoc(Absent, Num(7))}
    \cup {PlaceDoc(Address(suburb, neighbourhood, city, town, village, state), display) :
             suburb \in {Str("Baldivis"), Str(""), Absent},
             neighbourhood \in {Str("Settlers Hills"), Absent},
             city \in {Str("Perth"), Absent},
             town \in {Str("Rockingham"), Num(6168)},
             village \in {Str("Karnup"), Absent},
             state \in {Str("Western Australia"), Absent},
             display \in {DisplayName(<<Piece("Fifty Road"), Piece("Baldivis")>>), Absent}}

\* The positions getLocationName is asked about.
Positions == {<<0, 0>>, <<-32, 115>>}

\* A zone name is kept as its "/"-separated parts, each part as its
\* "_"-separated words; the string "" has no parts.
UTC == << <<"UTC">> >>
Perth == << <<"Australia">>, <<"Perth">> >>
NewYork == << <<"America">>, <<"New", "York">> >>
Nowhere == << <<"Mars">>, <<"Olympus", "Mons">> >>

\* The zones time.LoadLocation finds.
KnownZones == {UTC, Perth, NewYork}

\* The display name: the last part with spaces for underscores when the name
\* has a "/", the name as it is otherwise.
Display(zone) ==
    IF Len(zone) > 1
    THEN [words |-> zone[Len(zone)], sep |-> " "]
    ELSE [words |-> zone[1], sep |-> "_"]

\* time.Now().UTC() formatted as a clock, with the label "UTC".
UTCNow(tm) == [time |-> [from |-> "now", zone |-> UTC, at |-> tm], zone |-> Display(UTC)]

\* The "formatted" member: a timestamp in the layout "2006-01-02 15:04:05"
\* showing the clock time c, or some other text.
Stamp(c) == [t |-> "str", v |-> "stamp", clock |-> c]

\* getLocalTime without the test of the "status" member.
getLocalTimeNoStatusCheck(reply, tm) ==
    IF ~Fetched(reply)
    THEN UTCNow(tm)
    ELSE LET z == Member(reply, "zoneName")
             timezoneName == IF z.t = "zone" /\ z.v # <<>> THEN z.v ELSE UTC
             formatted == Member(reply, "formatted")
         IN IF formatted.t = "str" /\ formatted.v = "stamp"
            THEN [time |-> [from |-> "api", clock |-> formatted.clock],
                  zone |-> Display(timezoneName)]
            ELSE IF timezoneName \notin KnownZones
            THEN UTCNow(tm)
            ELSE [time |-> [from |-> "now", zone |-> timezoneName, at |-> tm],
                  zone |-> Display(timezoneName)]

\* getLocalTime at time tm, given what the timezone provider answered.
getLocalTime(reply, tm) ==
    IF ~Fetched(reply)
    THEN UTCNow(tm)
    ELSE IF Member(reply, "status") # Str("OK")
    THEN UTCNow(tm)
    ELSE LET z == Member(reply, "zoneName")
             timezoneName == IF z.t = "zone" /\ z.v # <<>> THEN z.v ELSE UTC
             formatted == Member(reply, "formatted")
         IN IF formatted.t = "str" /\ formatted.v = "stamp"
            THEN [time |-> [from |-> "api", clock |-> formatted.clock],
                  zone |-> Display(timezoneName)]
            ELSE IF timezoneName \notin KnownZones
            THEN UTCNow(tm)
            ELSE [time |-> [from |-> "now", zone |-> timezoneName, at |-> tm],
                  zone |-> Display(timezoneName)]

Zone(name) == [t |-> "zone", v |-> name]

TimeDoc(status, zoneName, formatted) ==
    JsonDoc([status |-> status, zoneName |-> zoneName, formatted |-> formatted])

\* What the timezone provider can answer.
TimeResponses ==
    {NetErr, ReadErr, Garbage, NullDoc}
    \cup {TimeDoc(status, zoneName, formatted) :
             status \in {Str("OK"), Str("FAILED"), Num(0), Absent},
             zoneName \in {Zone(Perth), Zone(NewYork), Zone(Nowhere), Zone(UTC),
                           Zone(<<>>), Absent},
             formatted \in {Stamp(14), Str("soon"), Str(""), Absent}}

(* calculateDistance.  A float64 is kept as a whole number of thousandths, and
   each operation rounds its result toward zero: like the rounding of float64
   arithmetic, the rounded result of an operation on -x is minus the one on x. *)
Scale == 1000

\* 3.14159265359
PI == 3142

\* Earth's radius in km.
R == 6371

\* n / d rounded toward zero.
Quot(n, d) ==
    LET q == (IF n < 0 THEN -n ELSE n) \div (IF d < 0 THEN -d ELSE d)
    IN IF (n < 0) = (d < 0) THEN q ELSE -q

\* x * y and x / y of two float64 values.
Mul(x, y) == Quot(x * y, Scale)

Div(x, y) == Quot(x * Scale, y)

RECURSIVE cosApprox(_)
cosApprox(x) ==
    LET turns == Quot(Div(x, 2 * PI), Scale)
        reduced == x - turns * (2 * PI)
        y == IF reduced < 0 THEN -reduced ELSE reduced
        x2 == Mul(y, y)
    IN IF y > PI
       THEN -cosApprox(y - PI)
       ELSE Scale - Quot(x2, 2) + Quot(Mul(x2, x2), 24)

asinApprox(x) ==
    x + Quot(Mul(Mul(x, x), x), 6) + Quot(Mul(Mul(Mul(Mul(3 * x, x), x), x), x), 40)

\* The loop of sqrtApprox: i more rounds of z = (z + x/z) / 2.
RECURSIVE Newton(_, _, _)
Newton(z, x, i) == IF i = 0 THEN z ELSE Newton(Quot(z + Div(x, z), 2), x, i - 1)

sqrtApprox(x) == IF x = 0 THEN 0 ELSE Newton(x, x, 10)

\* calculateDistance with the cosine of the first latitude taken twice.
calculateDistanceOneLatitude(lat1, lon1, lat2, lon2) ==
    LET dLat == Quot(Mul(lat2 - lat1, PI), 180)
        dLon == Quot(Mul(lon2 - lon1, PI), 180)
        a == Scale \div 2 - Mul(Scale \div 2, cosApprox(dLat))
             + Quot(Mul(Mul(cosApprox(Quot(Mul(lat1, PI), 180)),
                            cosApprox(Quot(Mul(lat1, PI), 180))),
                        Scale - cosApprox(dLon)), 2)
    IN (R * 2) * asinApprox(sqrtApprox(a))

\* The distance in km between two points given in degrees.
calculateDistance(lat1, lon1, lat2, lon2) ==
    LET dLat == Quot(Mul(lat2 - lat1, PI), 180)
        dLon == Quot(Mul(lon2 - lon1, PI), 180)
        a == Scale \div 2 - Mul(Scale \div 2, cosApprox(dLat))
             + Quot(Mul(Mul(cosApprox(Quot(Mul(lat1, PI), 180)),
                            cosApprox(Quot(Mul(lat2, PI), 180))),
                        Scale - cosApprox(dLon)), 2)
    IN (R * 2) * asinApprox(sqrtApprox(a))

\* Points of the globe in degrees: the poles, the equator, the antimeridian,
\* the home position of serveOverlayData and some in between.
Points ==
    {<<lat, lon>> : lat \in {-90000, -32283, 0, 45000, 90000},
                    lon \in {-180000, -73500, 0, 115842, 180000}}

\* The fields of its copy loc that serveOverlayData reads.
OverlayFields == {"Latitude", "Longitude", "Destination", "MilesToArrival"}

OverlayPart(loc) ==
    [f \in Range(LocationFields) |-> IF f \in OverlayFields THEN loc[f] ELSE ZeroLocation[f]]

\* The text serveOverlayData formats from its copy of the store and the three
\* lookups: the destination lines are there when the copy has a destination.
OverlayContent(loc, name, localTime, w) ==
    [kind |-> "content",
     location |-> name,
     destination |-> IF loc.Destination # ""
                     THEN <<loc.Destination, loc.MilesToArrival>>
                     ELSE <<>>,
     time |-> localTime.time,
     zone |-> localTime.zone,
     temperature |-> w.Temperature,
     conditions |-> w.Description,
     wind |-> w.WindSpeed]

DisabledContent == [kind |-> "content", text |-> "Overlay is disabled in configuration."]

\* What the three providers answer to one overlay request: each fails or succeeds.
PlaceLookups ==
    {NetErr,
     PlaceDoc(Address(Str("Baldivis"), Absent, Str("Perth"), Absent, Absent,
                      Str("Western Australia")), Absent)}

TimeLookups == {NetErr, TimeDoc(Str("OK"), Zone(Perth), Stamp(14))}

WeatherLookups == {NetErr, WeatherDoc(Current(Num(215), Num(657), Num(123), Num(20)))}

\* The answer of a provider that is up, or the failure of one that is down.
Provider(lookups, up) ==
    IF up THEN CHOOSE reply \in lookups : reply # NetErr ELSE NetErr

----------------------------------------------------------------------------
(* locationMutex *)

Readers == {"g1", "g2"}

\* One request at a time.
Single == {"g1"}

Endpoints == {"location", "overlay"}

\* Lock: waits until no reader and no writer holds the mutex.
CanLock(m) == ~m.w /\ m.r = {}

\* Faulty variant: readers do not wait for the writer.
CanRLockAlways(m) == TRUE

\* RLock: waits while a writer holds the mutex or waits for it.
CanRLock(m) == ~m.w /\ ~m.ww

\* Faulty variant: serveOverlayData keeps its read lock during the lookups.
RUnlockAfterLookups(m, r) == m

\* locationMutex.RUnlock() as serveOverlayData calls it after its copy.
RUnlock(m, r) == [m EXCEPT !.r = @ \ {r}]

\* Faulty variant: the handler returns without releasing its read lock.
DeferredRUnlockMissing(m, r) == m

\* defer locationMutex.RUnlock(): runs when the handler returns; a handler
\* that has released its lock already has nothing deferred.
DeferredRUnlock(m, r) == [m EXCEPT !.r = @ \ {r}]

\* Faulty variant: the flags are taken from the configuration the process started with.
EnabledAtStart(cfg, ep) ==
    IF ep = "location" THEN InitialConfig(Environment).MapEnabled
    ELSE InitialConfig(Environment).OverlayEnabled

\* The flag each endpoint checks before it reads the store.
Enabled(cfg, ep) == IF ep = "location" THEN cfg.MapEnabled ELSE cfg.OverlayEnabled

\* Faulty variant: the overlay endpoint refuses like the map endpoint does.
DisabledAnswerForbidden(ep) ==
    Reply(403, ErrorBody(IF ep = "location" THEN "Map is disabled in configuration."
                         ELSE "Overlay is disabled in configuration."))

\* What each endpoint answers when its flag is off.
DisabledAnswer(ep) ==
    IF ep = "location"
    THEN Reply(403, ErrorBody("Map is disabled in configuration."))
    ELSE Reply(200, DisabledContent)

----------------------------------------------------------------------------
(* History kept for the properties: what each scalar topic decoded to, and
   the route each active_route document describes. *)

\* The value a document gives for a key, zero when the key is missing or null.
DocValue(val, type, zero) == IF val.t = type THEN val.v ELSE zero

\* The six route-derived fields as an active_route document gives them.
DocRoute(p) ==
    [Destination |-> DocValue(p.obj.destination, "str", ""),
     DestinationLatitude |-> DocValue(p.obj.latitude, "num", 0),
     DestinationLongitude |-> DocValue(p.obj.longitude, "num", 0),
     MinutesToArrival |-> DocValue(p.obj.minutes_to_arrival, "num", 0),
     MilesToArrival |-> DocValue(p.obj.miles_to_arrival, "num", 0),
     EnergyAtArrival |-> DocValue(p.obj.energy_at_arrival, "num", 0)]

\* A document sets the route when it decodes and reports no error.
RecordRoute(seen, m) ==
    IF /\ m.topic = "active_route"
       /\ m.payload.kind = "json"
       /\ Unmarshal(m.payload).ok
       /\ RouteAvailable(Unmarshal(m.payload).route)
    THEN seen \cup {DocRoute(m.payload)}
    ELSE seen

ScalarTopics == FloatTopics \cup {"state"}

DecodeScalar(topic, payload) ==
    IF topic = "state" THEN [ok |-> TRUE, v |-> payload] ELSE ParseFloat(payload)

Record(hist, m) ==
    IF m.topic \in ScalarTopics /\ DecodeScalar(m.topic, m.payload).ok
    THEN [hist EXCEPT ![FieldOf(m.topic)] = Append(@, DecodeScalar(m.topic, m.payload).v)]
    ELSE hist

----------------------------------------------------------------------------
(* The state machine *)

Posters == {"p1", "p2"}

\* One administrator who sends one replacement at a time.
Lone == {"p1"}

\* The state after main has read the environment e.
Start(e) ==
    /\ currentLocation = ZeroLocation
    /\ locationMutex = [w |-> FALSE, r |-> {}, ww |-> FALSE]
    /\ now = 0
    /\ nmsgs = 0
    /\ hpc = "idle"
    /\ hmsg = NoMsg
    /\ pending = <<>>
    /\ entry = ZeroLocation
    /\ routes = {ZeroRoute}
    /\ applied = [f \in Range(ScalarFields) |-> <<>>]
    /\ rpc = [r \in Readers |-> "idle"]
    /\ rpos = [r \in Readers |-> 1]
    /\ rep = [r \in Readers |-> "location"]
    /\ snap = [r \in Readers |-> ZeroLocation]
    /\ rans = [r \in Readers |-> NoReply]
    /\ env = e
    /\ config = InitialConfig(e)
    /\ configs = {InitialConfig(e)}
    /\ jar = EmptySession
    /\ kept = {}
    /\ ppc = [p \in Posters |-> "idle"]
    /\ ppos = [p \in Posters |-> 1]
    /\ pnew = [p \in Posters |-> ZeroConfig]
    /\ pout = [p \in Posters |-> ZeroConfig]
    /\ preq = [p \in Posters |-> NoRequest]
    /\ pover = [p \in Posters |-> FALSE]
    /\ cpc = "idle"
    /\ cpos = 1
    /\ cout = ZeroConfig
    /\ nreqs = 0
    /\ resp = NoAnswer
    /\ lookup = NoLookup
    /\ weather = ZeroWeather
    /\ timeCall = NoCall
    /\ placeCall = NoCall
    /\ distCall = NoCall

Init == Start(Environment)

\* The program started in any of the environments.
InitAnyEnvironment == \E e \in Environments : Start(e)

readerVars == <<rpc, rpos, rep, snap, rans>>
handlerVars == <<hpc, hmsg, pending, entry, nmsgs, applied>>
posterVars == <<ppc, ppos, pnew, pout, preq, pover>>
getVars == <<cpc, cpos, cout>>

(* ---- the MQTT callback ---- *)

\* The bus client calls messageHandler with message m; the handler takes the
\* write lock and reads topic and payload.  Time has passed since the last call.
HandlerLock(m) ==
    /\ hpc \in {"idle", "waiting"}
    /\ nmsgs < MaxMsgs
    /\ CanLock(locationMutex)
    /\ locationMutex' = [locationMutex EXCEPT !.w = TRUE, !.ww = FALSE]
    /\ now' = now + 1
    /\ nmsgs' = nmsgs + 1
    /\ hpc' = "locked"
    /\ hmsg' = m
    /\ pending' = Assignments(m.topic, m.payload, now')
    /\ entry' = currentLocation
    /\ applied' = Record(applied, m)
    /\ routes' = RecordRoute(routes, m)
    /\ UNCHANGED <<currentLocation, readerVars, env, adapterVars, adminVars>>

\* The bus calls messageHandler while readers hold the mutex: Lock() blocks,
\* and from then on keeps new readers out.
HandlerWait ==
    /\ hpc = "idle"
    /\ nmsgs < MaxMsgs
    /\ ~CanLock(locationMutex)
    /\ locationMutex' = [locationMutex EXCEPT !.ww = TRUE]
    /\ hpc' = "waiting"
    /\ UNCHANGED <<currentLocation, now, nmsgs, hmsg, pending, entry, routes, applied,
                   readerVars, env, adapterVars, adminVars>>

\* messageHandler executes its next assignment to currentLocation.
HandlerAssign ==
    /\ hpc = "locked"
    /\ pending # <<>>
    /\ currentLocation' = [currentLocation EXCEPT ![Head(pending)[1]] = Head(pending)[2]]
    /\ pending' = Tail(pending)
    /\ UNCHANGED <<locationMutex, now, nmsgs, hpc, hmsg, entry, routes, applied,
                   readerVars, env, adapterVars, adminVars>>

\* messageHandler returns: the deferred Unlock runs.
HandlerUnlock ==
    /\ hpc = "locked"
    /\ pending = <<>>
    /\ locationMutex' = [locationMutex EXCEPT !.w = FALSE]
    /\ hpc' = "idle"
    /\ hmsg' = NoMsg
    /\ entry' = ZeroLocation
    /\ UNCHANGED <<currentLocation, now, nmsgs, pending, applied, routes, readerVars,
                   env, adapterVars, adminVars>>

(* ---- GET /location and GET /overlay-data ---- *)

\* serveLocationJSON / serveOverlayData find their flag off and answer at once.
ReaderDisabled(r, ep) ==
    /\ rpc[r] = "idle"
    /\ ~Enabled(config, ep)
    /\ rpc' = [rpc EXCEPT ![r] = "answered"]
    /\ rep' = [rep EXCEPT ![r] = ep]
    /\ rans' = [rans EXCEPT ![r] = DisabledAnswer(ep)]
    /\ UNCHANGED <<currentLocation, locationMutex, now, handlerVars, routes, rpos, snap,
                   env, adminVars, adapterVars>>

\* serveLocationJSON / serveOverlayData find their flag set and take the read lock.
ReaderRLock(r, ep) ==
    /\ rpc[r] = "idle"
    /\ Enabled(config, ep)
    /\ CanRLock(locationMutex)
    /\ locationMutex' = [locationMutex EXCEPT !.r = @ \cup {r}]
    /\ rpc' = [rpc EXCEPT ![r] = "copy"]
    /\ rpos' = [rpos EXCEPT ![r] = 1]
    /\ rep' = [rep EXCEPT ![r] = ep]
    /\ UNCHANGED <<currentLocation, now, handlerVars, routes, snap, rans, env, adminVars,
                   adapterVars>>

\* The handler reads the next field of currentLocation: into the JSON it
\* encodes (/location) or into its copy loc (/overlay-data).
ReaderCopy(r) ==
    /\ rpc[r] = "copy"
    /\ rpos[r] <= Len(LocationFields)
    /\ snap' = [snap EXCEPT ![r][LocationFields[rpos[r]]] =
                                currentLocation[LocationFields[rpos[r]]]]
    /\ rpos' = [rpos EXCEPT ![r] = @ + 1]
    /\ UNCHANGED <<currentLocation, locationMutex, now, handlerVars, routes, rpc, rep,
                   rans, env, adminVars, adapterVars>>

\* serveLocationJSON: Encode has read the last field and the answer is
\* written; the read lock is held until the handler returns.
LocationAnswer(r) ==
    /\ rpc[r] = "copy"
    /\ rep[r] = "location"
    /\ rpos[r] > Len(LocationFields)
    /\ rpc' = [rpc EXCEPT ![r] = "answered"]
    /\ rpos' = [rpos EXCEPT ![r] = 1]
    /\ rans' = [rans EXCEPT ![r] = Reply(200, LocationBody(snap[r]))]
    /\ snap' = [snap EXCEPT ![r] = ZeroLocation]
    /\ UNCHANGED <<currentLocation, locationMutex, now, handlerVars, routes, rep, env,
                   adminVars, adapterVars>>

\* serveOverlayData: the copy is complete and the read lock is released
\* before the lookups are made; of the copy, the fields in use are kept.
ReaderRUnlock(r) ==
    /\ rpc[r] = "copy"
    /\ rep[r] = "overlay"
    /\ rpos[r] > Len(LocationFields)
    /\ locationMutex' = RUnlock(locationMutex, r)
    /\ rpc' = [rpc EXCEPT ![r] = "enrich"]
    /\ rpos' = [rpos EXCEPT ![r] = 1]
    /\ snap' = [snap EXCEPT ![r] = OverlayPart(snap[r])]
    /\ UNCHANGED <<currentLocation, now, handlerVars, routes, rep, rans, env,
                   adminVars, adapterVars>>

\* serveOverlayData: the three lookups have returned, given what the
\* providers answered; the content is formatted and the answer written.
OverlayAnswer(r, place, zone, w) ==
    /\ rpc[r] = "enrich"
    /\ rpc' = [rpc EXCEPT ![r] = "answered"]
    /\ rans' = [rans EXCEPT ![r] =
                   Reply(200, OverlayContent(snap[r],
                                             getLocationName(place, snap[r].Latitude,
                                                             snap[r].Longitude),
                                             getLocalTime(zone, now),
                                             getWeather(w)))]
    /\ snap' = [snap EXCEPT ![r] = ZeroLocation]
    /\ UNCHANGED <<currentLocation, locationMutex, now, handlerVars, routes, rpos, rep,
                   env, adminVars, adapterVars>>

\* The handler returns; the deferred RUnlock of serveLocationJSON runs.
ReaderReturn(r) ==
    /\ rpc[r] = "answered"
    /\ locationMutex' = DeferredRUnlock(locationMutex, r)
    /\ rpc' = [rpc EXCEPT ![r] = "idle"]
    /\ rep' = [rep EXCEPT ![r] = "location"]
    /\ rans' = [rans EXCEPT ![r] = NoReply]
    /\ UNCHANGED <<currentLocation, now, handlerVars, routes, rpos, snap, env, adminVars,
                   adapterVars>>

\* With the store under load the providers are all up or all down; the mixed
\* cases are part of NextViews.
NextStore ==
    \/ \E m \in Messages : HandlerLock(m)
    \/ HandlerAssign
    \/ HandlerUnlock
    \/ \E r \in Single, ep \in Endpoints : ReaderRLock(r, ep)
    \/ \E r \in Single : ReaderCopy(r)
    \/ \E r \in Single : LocationAnswer(r)
    \/ \E r \in Single : ReaderRUnlock(r)
    \/ \E r \in Single, up \in BOOLEAN :
          OverlayAnswer(r, Provider(PlaceLookups, up), Provider(TimeLookups, up),
                        Provider(WeatherLookups, up))
    \/ \E r \in Single : ReaderReturn(r)

(* ---- the admin surface ---- *)

\* An hour hand: time passes.
Tick ==
    /\ now + TickHours <= MaxNow
    /\ now' = now + TickHours
    /\ UNCHANGED <<storeVars, env, adapterVars, adminVars>>

\* The cookie the browser holds after a handler that left the session as saved.
Saved(sess, saved) == IF saved # sess THEN saved ELSE jar

\* Faulty variant: the password is not compared.
CredentialsOKByName(e, username, password) == username = e.ADMIN_USERNAME

\* username == adminUsername && password == adminPassword
CredentialsOK(e, username, password) ==
    username = e.ADMIN_USERNAME /\ password = e.ADMIN_PASSWORD

\* Faulty variant: the credentials are never found missing.
ConfiguredAlways(e) == TRUE

\* adminUsername and adminPassword are both set.
Configured(e) == e.ADMIN_USERNAME # "" /\ e.ADMIN_PASSWORD # ""

\* serveAdminLogin with the given method and form values, carrying session sess.
AdminLogin(method, username, password, sess) ==
    /\ nreqs < MaxReqs
    /\ nreqs' = nreqs + 1
    /\ LET req == IF method = "POST" THEN Form(username, password) ELSE NoBody IN
       IF ~Configured(env)
       THEN /\ resp' = Answer("/admin/login", method, req, 500, sess, now, NoBody)
            /\ UNCHANGED <<jar, kept>>
       ELSE IF method = "POST" /\ CredentialsOK(env, username, password)
       THEN /\ jar' = LoginSession(sess, username, now)
            /\ kept' = kept \cup {LoginSession(sess, username, now)}
            /\ resp' = Answer("/admin/login", method, req, 302, sess, now, NoBody)
       ELSE /\ UNCHANGED <<jar, kept>>
            /\ resp' = Answer("/admin/login", method, req, 200, sess, now, NoBody)
    /\ UNCHANGED <<storeVars, now, env, adapterVars, config, configs, posterVars, getVars>>

\* Faulty variant: the cookie is sent back as it came.
AfterLogoutKept(sess) == sess

\* The cookie the browser is left with by serveAdminLogout: the session is
\* cleared and saved with MaxAge -1, which makes the browser drop the cookie.
AfterLogout(sess) == EmptySession

\* serveAdminLogout, whatever the method.
AdminLogout(method, sess) ==
    /\ nreqs < MaxReqs
    /\ nreqs' = nreqs + 1
    /\ jar' = IF sess = jar THEN AfterLogout(sess) ELSE jar
    /\ resp' = Answer("/admin/logout", method, NoBody, 302, sess, now, NoBody)
    /\ UNCHANGED <<storeVars, now, env, adapterVars, config, configs, kept, posterVars, getVars>>

\* serveAdmin: the admin panel, behind requireAuth.
AdminPage(method, sess) ==
    /\ nreqs < MaxReqs
    /\ nreqs' = nreqs + 1
    /\ LET a == requireAuth(sess, now) IN
       /\ jar' = Saved(sess, a.sess)
       /\ resp' = Answer("/admin", method, NoBody, IF a.ok THEN 200 ELSE 302, sess, now,
                         NoBody)
    /\ UNCHANGED <<storeVars, now, env, adapterVars, config, configs, kept, posterVars, getVars>>

\* serveAdminConfig up to the assignment: requireAuth, the method switch and
\* the decoding of the body.
AdminConfigStart(p, method, body, sess) ==
    /\ ppc[p] = "idle"
    /\ nreqs < MaxReqs
    /\ nreqs' = nreqs + 1
    /\ LET a == requireAuth(sess, now)
           d == DecodeConfig(body)
           status == IF ~a.ok THEN 302
                     ELSE IF method # "POST" THEN 405
                     ELSE IF ~d.ok THEN 400 ELSE 200
       IN /\ jar' = Saved(sess, a.sess)
          /\ IF status = 200
             THEN /\ ppc' = [ppc EXCEPT ![p] = "write"]
                  /\ pnew' = [pnew EXCEPT ![p] = d.cfg]
                  /\ preq' = [preq EXCEPT ![p] = [sess |-> sess, at |-> now, body |-> body]]
                  /\ pover' = [q \in Posters |->
                                  IF q = p THEN \E o \in Posters : ppc[o] = "write"
                                  ELSE pover[q] \/ ppc[q] # "idle"]
                  /\ configs' = configs \cup {d.cfg}
                  /\ resp' = resp
             ELSE /\ resp' = Answer("/admin/config", method,
                                    IF status = 400 THEN body ELSE NoBody,
                                    status, sess, now, NoBody)
                  /\ UNCHANGED <<ppc, pnew, preq, pover, configs>>
    /\ UNCHANGED <<storeVars, now, env, adapterVars, config, kept, ppos, pout, getVars>>

\* config = newConfig: the record is stored one field after the other.
AdminConfigWrite(p) ==
    /\ ppc[p] = "write"
    /\ config' = [config EXCEPT ![ConfigFields[ppos[p]]] = pnew[p][ConfigFields[ppos[p]]]]
    /\ IF ppos[p] < Len(ConfigFields)
       THEN /\ ppos' = [ppos EXCEPT ![p] = @ + 1]
            /\ ppc' = ppc
       ELSE /\ ppos' = [ppos EXCEPT ![p] = 1]
            /\ ppc' = [ppc EXCEPT ![p] = "encode"]
    /\ UNCHANGED <<storeVars, now, env, adapterVars, configs, kept, jar, pnew, pout, preq, pover,
                   getVars, nreqs, resp>>

\* json.NewEncoder(w).Encode(config): the record is read one field after the
\* other; after the last field the answer is sent.
AdminConfigEncode(p) ==
    /\ ppc[p] = "encode"
    /\ LET out == [pout[p] EXCEPT ![ConfigFields[ppos[p]]] = config[ConfigFields[ppos[p]]]]
       IN IF ppos[p] < Len(ConfigFields)
          THEN /\ pout' = [pout EXCEPT ![p] = out]
               /\ ppos' = [ppos EXCEPT ![p] = @ + 1]
               /\ UNCHANGED <<ppc, pnew, preq, pover, resp>>
          ELSE /\ resp' = Answer("/admin/config", "POST", preq[p].body, 200, preq[p].sess,
                                 preq[p].at, ConfigBody(out))
               /\ ppc' = [ppc EXCEPT ![p] = "idle"]
               /\ ppos' = [ppos EXCEPT ![p] = 1]
               /\ pnew' = [pnew EXCEPT ![p] = ZeroConfig]
               /\ pout' = [pout EXCEPT ![p] = ZeroConfig]
               /\ preq' = [preq EXCEPT ![p] = NoRequest]
               /\ pover' = [pover EXCEPT ![p] = FALSE]
    /\ UNCHANGED <<storeVars, now, env, adapterVars, config, configs, kept, jar, getVars, nreqs>>

\* serveConfig: the method switch.  The body is not read.
ConfigGet(method, body) ==
    /\ cpc = "idle"
    /\ nreqs < MaxReqs
    /\ nreqs' = nreqs + 1
    /\ IF method = "GET"
       THEN /\ cpc' = "encode"
            /\ resp' = resp
       ELSE /\ cpc' = cpc
            /\ resp' = Answer("/config", method, body, 405, EmptySession, now, NoBody)
    /\ UNCHANGED <<storeVars, now, env, adapterVars, config, configs, kept, jar, posterVars, cpos,
                   cout>>

\* serveConfig: json.NewEncoder(w).Encode(config), one field after the other.
ConfigEncode ==
    /\ cpc = "encode"
    /\ LET out == [cout EXCEPT ![ConfigFields[cpos]] = config[ConfigFields[cpos]]]
       IN IF cpos < Len(ConfigFields)
          THEN /\ cout' = out
               /\ cpos' = cpos + 1
               /\ UNCHANGED <<cpc, resp>>
          ELSE /\ resp' = Answer("/config", "GET", NoBody, 200, EmptySession, now,
                                 ConfigBody(out))
               /\ cpc' = "idle"
               /\ cpos' = 1
               /\ cout' = ZeroConfig
    /\ UNCHANGED <<storeVars, now, env, adapterVars, config, configs, kept, jar, posterVars, nreqs>>

\* A request carries the cookie the browser holds, or none.
Carried == {jar, EmptySession}

\* What a client that kept copies of earlier cookies can send.
Replayed == Carried \cup kept

NextAdmin ==
    \/ Tick
    \/ \E method \in Methods, form \in Forms, sess \in Carried :
          AdminLogin(method, form[1], form[2], sess)
    \/ \E method \in Methods, sess \in Carried : AdminLogout(method, sess)
    \/ \E method \in Methods, sess \in Carried : AdminPage(method, sess)
    \/ \E p \in Lone, method \in Methods, body \in ConfigBodies, sess \in Carried :
          AdminConfigStart(p, method, body, sess)
    \/ \E p \in Lone : AdminConfigWrite(p)
    \/ \E p \in Lone : AdminConfigEncode(p)
    \/ \E method \in Methods, body \in ConfigBodies : ConfigGet(method, body)
    \/ ConfigEncode

(* ---- replacements in flight at the same time ---- *)

NextRace ==
    \/ \E method \in Methods, form \in Forms, sess \in Carried :
          AdminLogin(method, form[1], form[2], sess)
    \/ \E p \in Posters, method \in Methods, body \in ConfigBodies, sess \in Carried :
          AdminConfigStart(p, method, body, sess)
    \/ \E p \in Posters : AdminConfigWrite(p)
    \/ \E p \in Posters : AdminConfigEncode(p)

(* ---- the views with a configuration that changes ---- *)

NextViews ==
    \/ \E method \in Methods, form \in Forms, sess \in Carried :
          AdminLogin(method, form[1], form[2], sess)
    \/ \E p \in Lone, method \in Methods, body \in ConfigBodies, sess \in Carried :
          AdminConfigStart(p, method, body, sess)
    \/ \E p \in Lone : AdminConfigWrite(p)
    \/ \E p \in Lone : AdminConfigEncode(p)
    \/ \E r \in Single, ep \in Endpoints : ReaderDisabled(r, ep)
    \/ \E r \in Single, ep \in Endpoints : ReaderRLock(r, ep)
    \/ \E r \in Single : ReaderCopy(r)
    \/ \E r \in Single : LocationAnswer(r)
    \/ \E r \in Single : ReaderRUnlock(r)
    \/ \E r \in Single, place \in PlaceLookups, zone \in TimeLookups,
             w \in WeatherLookups : OverlayAnswer(r, place, zone, w)
    \/ \E r \in Single : ReaderReturn(r)

\* The messages of the bus while two requests read the store: positions.
LiveMessages == {[topic |-> "latitude", payload |-> Text(<<"7">>)]}

\* The bus callback and two concurrent readers of the store.
NextLive ==
    \/ \E m \in LiveMessages : HandlerLock(m)
    \/ HandlerWait
    \/ HandlerAssign
    \/ HandlerUnlock
    \/ \E r \in Readers, ep \in Endpoints : ReaderRLock(r, ep)
    \/ \E r \in Readers : ReaderCopy(r)
    \/ \E r \in Readers : LocationAnswer(r)
    \/ \E r \in Readers : ReaderRUnlock(r)
    \/ \E r \in Readers, up \in BOOLEAN :
          OverlayAnswer(r, Provider(PlaceLookups, up), Provider(TimeLookups, up),
                        Provider(WeatherLookups, up))
    \/ \E r \in Readers : ReaderReturn(r)

\* Every goroutine that can run does run: the bus calls the callback for the
\* messages it has, and the callback and the handlers go on with the step
\* they are at.  Nothing makes a request arrive, and nothing makes a provider
\* answer: http.Get is called without a timeout.
Fairness ==
    /\ WF_vars(HandlerWait \/ \E m \in LiveMessages : HandlerLock(m))
    /\ WF_vars(HandlerAssign)
    /\ WF_vars(HandlerUnlock)
    /\ \A r \in Readers :
          /\ WF_vars(ReaderCopy(r))
          /\ WF_vars(LocationAnswer(r))
          /\ WF_vars(ReaderRUnlock(r))
          /\ WF_vars(ReaderReturn(r))

\* The admin surface with clients that present copies of earlier cookies.
NextReplay ==
    \/ \E method \in Methods, form \in Forms, sess \in Replayed :
          AdminLogin(method, form[1], form[2], sess)
    \/ \E method \in Methods, sess \in Replayed : AdminLogout(method, sess)
    \/ \E method \in Methods, sess \in Replayed : AdminPage(method, sess)
    \/ \E p \in Lone, method \in Methods, body \in ConfigBodies, sess \in Replayed :
          AdminConfigStart(p, method, body, sess)
    \/ \E p \in Lone : AdminConfigWrite(p)
    \/ \E p \in Lone : AdminConfigEncode(p)

(* ---- a call of getWeather ---- *)

\* getWeather is called and the provider answers with reply.
WeatherLookup(reply) ==
    /\ lookup' = reply
    /\ weather' = getWeather(reply)
    /\ UNCHANGED <<storeVars, now, env, adminVars, timeCall, placeCall, distCall>>

NextWeather == \E reply \in WeatherResponses : WeatherLookup(reply)

(* ---- a call of getLocalTime ---- *)

\* getLocalTime is called and the provider answers with reply.
TimeLookup(reply) ==
    /\ timeCall' = [reply |-> reply, at |-> now, result |-> getLocalTime(reply, now)]
    /\ UNCHANGED <<storeVars, now, env, adminVars, lookup, weather, placeCall, distCall>>

NextTime ==
    \/ Tick
    \/ \E reply \in TimeResponses : TimeLookup(reply)

(* ---- a call of getLocationName ---- *)

\* getLocationName is called for a position and the geocoder answers with reply.
PlaceLookup(reply, lat, lon) ==
    /\ placeCall' = [reply |-> reply, lat |-> lat, lon |-> lon,
                     result |-> getLocationName(reply, lat, lon)]
    /\ UNCHANGED <<storeVars, now, env, adminVars, lookup, weather, timeCall, distCall>>

NextPlace == \E reply \in PlaceResponses, at \in Positions : PlaceLookup(reply, at[1], at[2])

(* ---- a call of calculateDistance ---- *)

\* calculateDistance is called for two points.
DistanceCall(a, b) ==
    /\ distCall' = [from |-> a, to |-> b, km |-> calculateDistance(a[1], a[2], b[1], b[2])]
    /\ UNCHANGED <<storeVars, now, env, adminVars, lookup, weather, timeCall, placeCall>>

NextDistance == \E a \in Points, b \in Points : DistanceCall(a, b)

Next == NextStore \/ NextAdmin \/ NextRace \/ NextViews \/ NextReplay \/ NextLive \/ NextWeather \/ NextTime \/ NextPlace \/ NextDistance

Spec == Init /\ [][Next]_vars

\* The telemetry store alone: the bus callback and the readers of the store.
SpecStore == Init /\ [][NextStore]_vars

\* The admin surface alone: sessions, configuration and the clock.
SpecAdmin == Init /\ [][NextAdmin]_vars

\* The admin surface of a program started with or without admin credentials.
SpecEnvironment == InitAnyEnvironment /\ [][NextAdmin]_vars

\* The admin surface under clients that replay cookies they kept.
SpecReplay == Init /\ [][NextReplay]_vars

\* The store under the bus and two readers, every running goroutine making progress.
SpecLive == Init /\ [][NextLive]_vars /\ Fairness

\* The configuration under two replacements that may overlap.
SpecRace == Init /\ [][NextRace]_vars

\* The map and overlay endpoints under an administrator who changes the flags.
SpecViews == Init /\ [][NextViews]_vars

\* The weather adapter alone.
SpecWeather == Init /\ [][NextWeather]_vars

\* The local-time adapter alone, under a clock that moves.
SpecTime == Init /\ [][NextTime]_vars

\* The place-name adapter alone.
SpecPlace == Init /\ [][NextPlace]_vars

\* The distance computation alone.
SpecDistance == Init /\ [][NextDistance]_vars

----------------------------------------------------------------------------
(* Properties of the telemetry store (checked under SpecStore) *)

\* messageHandler has executed its switch and is about to return.
HandlerDone == hpc = "locked" /\ pending = <<>>

\* Reader r has read every field of currentLocation and still holds the read lock.
Complete(r) == rpc[r] = "copy" /\ rpos[r] > Len(LocationFields)

Last(seq) == seq[Len(seq)]

ScalarSet == Range(ScalarFields)

\* C1: a complete snapshot taken by /location or /overlay-data never holds a
\* torn route: its six route-derived fields are together the zero route or
\* together the route of one single active_route document that was received.
C1_NoTornRoute ==
    \A r \in Readers : Complete(r) => RoutePart(snap[r]) \in routes

\* C1 witness: two different routes were received and a reader holds a complete
\* snapshot with a route in it.
C1_Witness ==
    \E r \in Readers :
        /\ Complete(r)
        /\ Cardinality(routes) >= 3
        /\ RoutePart(snap[r]) # ZeroRoute

\* C2: every scalar field of a snapshot, at every point of the copy, is the
\* zero value or a value that was applied to that very field, and whenever
\* the handler is not running each scalar field of the store holds the last
\* value applied to it (last write wins).
C2_PrefixPerField ==
    /\ \A r \in Readers : \A f \in ScalarSet :
          snap[r][f] \in {ZeroLocation[f]} \cup Range(applied[f])
    /\ hpc = "idle" =>
          \A f \in ScalarSet :
              currentLocation[f] = IF applied[f] = <<>> THEN ZeroLocation[f]
                                   ELSE Last(applied[f])

\* C2 witness: a field was updated twice with different values and a complete
\* snapshot shows the second one.
C2_Witness ==
    \E r \in Readers : \E f \in ScalarSet :
        /\ Complete(r)
        /\ Len(applied[f]) = 2
        /\ applied[f][1] # applied[f][2]
        /\ snap[r][f] = applied[f][2]

\* The handler is done with an active_route document that decoded.
RouteDone ==
    /\ HandlerDone
    /\ hmsg.topic = "active_route"
    /\ hmsg.payload.kind = "json"
    /\ Unmarshal(hmsg.payload).ok

\* C6 as claimed: any non-empty error text clears the six route fields.
C6_AnyErrorClears ==
    (RouteDone /\ hmsg.payload.obj.error.t = "str" /\ hmsg.payload.obj.error.v # "")
        => RoutePart(currentLocation) = ZeroRoute

\* C6 amended: an error text other than "" and the word "null" clears the six
\* route-derived fields together, whatever route was stored before.
C6_ErrorClears ==
    (RouteDone /\ hmsg.payload.obj.error.t = "str"
               /\ hmsg.payload.obj.error.v \notin {"", "null"})
        => RoutePart(currentLocation) = ZeroRoute

\* C6 witness: a stored route was cleared by a document with an error text.
C6_Witness ==
    /\ RouteDone
    /\ hmsg.payload.obj.error.t = "str"
    /\ hmsg.payload.obj.error.v \notin {"", "null"}
    /\ RoutePart(entry) # ZeroRoute
    /\ RoutePart(currentLocation) = ZeroRoute

\* The document's error indicator is missing, null or the empty string.
NoError(p) == p.obj.error.t \in {"absent", "null"} \/ p.obj.error = Str("")

\* C7: a document without error replaces the whole route sub-record: the six
\* fields are those of the document, zero where the document omits them; and
\* whenever the handler is not running the stored route is the zero route or
\* the route of one single document.
C7_RouteReplacedWhole ==
    /\ (RouteDone /\ NoError(hmsg.payload))
          => RoutePart(currentLocation) = DocRoute(hmsg.payload)
    /\ hpc = "idle" => RoutePart(currentLocation) \in routes

\* C7 witness: a document that omits the location replaced a stored route that
\* had one.
C7_Witness ==
    /\ RouteDone
    /\ NoError(hmsg.payload)
    /\ hmsg.payload.obj.latitude = Absent
    /\ entry["DestinationLatitude"] # 0
    /\ currentLocation["DestinationLatitude"] = 0
    /\ currentLocation["Destination"] # ""

\* The message cannot be decoded for its topic.
Undecodable(m) ==
    \/ m.topic \in FloatTopics /\ ~ParseFloat(m.payload).ok
    \/ m.topic = "active_route" /\ ~Unmarshal(m.payload).ok

\* C8: an undecodable payload changes nothing in the store, neither while the
\* handler runs nor when it returns, and the handler goes on to return.
C8_UndecodableDropped ==
    (hpc = "locked" /\ Undecodable(hmsg))
        => currentLocation = entry /\ pending = <<>>

\* C8 witness: an undecodable payload arrived for a field that held a value.
C8_Witness ==
    /\ hpc = "locked"
    /\ Undecodable(hmsg)
    /\ hmsg.topic = "speed"
    /\ entry["Speed"] # 0
    /\ currentLocation["Speed"] = entry["Speed"]

\* The handler is done with a scalar message that decoded.
ScalarDone ==
    /\ HandlerDone
    /\ hmsg.topic \in ScalarTopics
    /\ DecodeScalar(hmsg.topic, hmsg.payload).ok

\* C9 as claimed: every applied scalar update stamps UpdatedAt.
C9_EveryScalarStamps ==
    ScalarDone => currentLocation["UpdatedAt"] = now

\* C9 amended: an applied latitude or longitude update sets UpdatedAt to the
\* time of the update; an applied update of any other scalar field leaves
\* UpdatedAt as it was.
C9_PositionStamps ==
    ScalarDone =>
        currentLocation["UpdatedAt"] =
            IF hmsg.topic \in {"latitude", "longitude"} THEN now ELSE entry["UpdatedAt"]

\* C9 witness: a longitude update moved the timestamp forward.
C9_Witness ==
    /\ ScalarDone
    /\ hmsg.topic = "longitude"
    /\ entry["UpdatedAt"] # 0
    /\ currentLocation["UpdatedAt"] = now
    /\ now # entry["UpdatedAt"]

\* C10: an active_route message, whether it sets or clears the route, leaves
\* UpdatedAt and the eight scalar fields as they were.
C10_RouteLeavesScalars ==
    (hpc = "locked" /\ hmsg.topic = "active_route")
        => \A f \in ScalarSet \cup {"UpdatedAt"} : currentLocation[f] = entry[f]

\* C10 witness: a route was set after the position had been updated.
C10_Witness ==
    /\ RouteDone
    /\ RoutePart(currentLocation) # RoutePart(entry)
    /\ entry["UpdatedAt"] # 0
    /\ entry["Latitude"] # 0

\* C24: a message on the topic of scalar field F changes at most F and the
\* timestamp; every other scalar field and the six route-derived fields keep
\* the values they had when the callback took the lock.
C24_ScalarTopicTouchesOwnField ==
    (hpc = "locked" /\ hmsg.topic \in ScalarTopics)
        => \A f \in Range(LocationFields) \ {FieldOf(hmsg.topic), "UpdatedAt"} :
              currentLocation[f] = entry[f]

\* A speed message has been applied to a store that holds a route.
C24_Witness ==
    /\ HandlerDone
    /\ hmsg.topic = "speed"
    /\ currentLocation["Speed"] # entry["Speed"]
    /\ entry["Destination"] # ""
    /\ entry["MilesToArrival"] # 0

\* C18: a message on a topic the handler has no case for leaves every field
\* of the store, UpdatedAt included, as it was when the handler took the lock.
C18_UnknownTopicIgnored ==
    (hpc = "locked" /\ hmsg.topic \notin SubscribedTopics)
        => pending = <<>> /\ currentLocation = entry

\* A number has arrived on an unknown topic after the store was filled and stamped.
C18_Witness ==
    /\ HandlerDone
    /\ hmsg.topic \notin SubscribedTopics
    /\ hmsg.payload = Text(<<"7">>)
    /\ entry.UpdatedAt > 0
    /\ currentLocation = entry

----------------------------------------------------------------------------
(* Properties of the admin surface (checked under SpecAdmin) *)

\* The time of login a session records, in either form.
LoginTime(sess) == IF sess.login_time.t = "time" THEN sess.login_time.at ELSE sess.login_time.v

\* The access gate's authenticated state at time tm: logged in, not logged
\* out, and no more than 24 hours after the login.
AuthenticatedAt(sess, tm) ==
    /\ sess.authenticated = Bool(TRUE)
    /\ sess.login_time.t # "absent"
    /\ tm - LoginTime(sess) <= SessionTimeoutHours

\* C3: every Config a GET /config or a POST /admin/config answers with is one
\* whole record: the one the program started with or one that was submitted,
\* never fields of two of them.
C3_ConfigReadWhole ==
    resp.body.kind = "config" => resp.body.cfg \in configs

\* C4: the configuration changes only in the assignment of a POST
\* /admin/config request, and such a request reaches the assignment only when
\* the session it carried was in the authenticated state when it arrived.
C4_OnlyAuthenticatedReplace ==
    [][ /\ config' # config => \E p \in Posters : ppc[p] = "write"
        /\ \A p \in Posters :
              (ppc[p] = "idle" /\ ppc'[p] = "write")
                  => AuthenticatedAt(preq'[p].sess, preq'[p].at) ]_vars

\* C5: a request to /admin or /admin/config that carries an authenticated
\* session whose login is more than 24 hours old is answered with the
\* redirect to the login page, and none is in the course of replacing the
\* configuration.
C5_ExpiredSessionRejected ==
    /\ (/\ resp.path \in {"/admin", "/admin/config"}
        /\ resp.sess.authenticated = Bool(TRUE)
        /\ resp.at - LoginTime(resp.sess) > SessionTimeoutHours)
          => resp.status = 302
    /\ \A p \in Posters :
          ppc[p] # "idle" => preq[p].at - LoginTime(preq[p].sess) <= SessionTimeoutHours

\* The session says it is logged in.
LoggedIn(sess) == sess.authenticated = Bool(TRUE)

\* A body that does not decode as the Config record: text that is no JSON, or
\* a member of the wrong type.
Malformed(body) ==
    \/ body.kind = "text"
    \/ /\ body.kind = "json"
       /\ \E f \in Range(ConfigFields) :
             body.obj[KeyOf(f)].t \notin
                 {"absent", "null", IF f \in StringFields THEN "str" ELSE "bool"}

\* The record a well-formed body describes: each member it gives, and false
\* or the empty string for each member it leaves out.
Submitted(body) ==
    [f \in Range(ConfigFields) |->
        DocValue(body.obj[KeyOf(f)], IF f \in StringFields THEN "str" ELSE "bool",
                 IF f \in StringFields THEN "" ELSE FALSE)]

\* C12: a POST to /config with a JSON body is accepted and the map_enabled
\* flag of the configuration is then the submitted one.
C12_PostConfigUpdates ==
    (/\ resp.path = "/config"
     /\ resp.method = "POST"
     /\ resp.req.kind = "json"
     /\ ~Malformed(resp.req))
        => /\ resp.status = 200
           /\ config.MapEnabled = Submitted(resp.req).MapEnabled

\* C13: a POST /admin/config of a logged-in session is either admitted to the
\* assignment or answered 400; one with a malformed body is never admitted and
\* never answered 200, and the request answered 400 leaves the configuration
\* as it was.
C13_MalformedRejected ==
    /\ [](/\ (resp.path = "/admin/config" /\ resp.method = "POST" /\ LoggedIn(resp.sess))
                => /\ resp.status \in {200, 400}
                   /\ resp.status = 400 <=> Malformed(resp.req)
          /\ \A p \in Lone : ppc[p] # "idle" => ~Malformed(preq[p].body))
    /\ [][(/\ nreqs' = nreqs + 1
           /\ resp'.path = "/admin/config"
           /\ resp'.status = 400
           /\ \A p \in Lone : ppc'[p] = ppc[p]) => config' = config]_vars

\* A malformed body was answered 400 while the configuration in use was a
\* submitted one, which is still there.
C13_Witness ==
    /\ resp.path = "/admin/config"
    /\ resp.status = 400
    /\ Malformed(resp.req)
    /\ resp.req.kind = "json"
    /\ config # InitialConfig(Environment)
    /\ config \in configs

\* C15: the cookie turns from not logged in to logged in only in the step
\* that answers a POST to /admin/login whose username and password are the
\* configured ones.
C15_OnlyLoginAuthenticates ==
    [][(~LoggedIn(jar) /\ LoggedIn(jar'))
          => /\ nreqs' = nreqs + 1
             /\ resp'.path = "/admin/login"
             /\ resp'.method = "POST"
             /\ resp'.status = 302
             /\ resp'.req = Form(env.ADMIN_USERNAME, env.ADMIN_PASSWORD)
             /\ jar'.username = Str(env.ADMIN_USERNAME)]_vars

\* The cookie is logged in after a wrong password was answered with the form
\* again and the right one with the redirect.
C15_Witness ==
    /\ LoggedIn(jar)
    /\ resp.path = "/admin/login"
    /\ resp.status = 302
    /\ nreqs > 1

\* C16: the logout of a logged-in session leaves the browser with a cookie
\* that is not logged in; a request to /admin or /admin/config that carries a
\* session that is not logged in is redirected, and none is in the course of
\* replacing the configuration.
C16_LogoutMakesAnonymous ==
    /\ (resp.path = "/admin/logout" /\ LoggedIn(resp.sess)) => ~LoggedIn(jar)
    /\ (resp.path \in {"/admin", "/admin/config"} /\ ~LoggedIn(resp.sess))
          => resp.status = 302
    /\ \A p \in Lone : ppc[p] # "idle" => LoggedIn(preq[p].sess)

\* A logged-in session has logged out with GET /admin/logout.
C16_Witness ==
    /\ resp.path = "/admin/logout"
    /\ resp.method = "GET"
    /\ LoggedIn(resp.sess)
    /\ jar = EmptySession

\* C17: a request to /admin or /admin/config is let through or redirected by
\* the session it carries alone: redirected, whatever its method, when the
\* session is missing, not logged in or expired, and in the course of
\* replacing the configuration only when the session was in the authenticated
\* state on arrival.
C17_GateBySessionAlone ==
    /\ (resp.path \in {"/admin", "/admin/config"}
           /\ ~AuthenticatedAt(resp.sess, resp.at)) => resp.status = 302
    /\ (resp.path \in {"/admin", "/admin/config"}
           /\ AuthenticatedAt(resp.sess, resp.at)) => resp.status # 302
    /\ \A p \in Lone : ppc[p] # "idle" => AuthenticatedAt(preq[p].sess, preq[p].at)

----------------------------------------------------------------------------
(* Properties of replacements that may overlap (checked under SpecRace) *)

\* C14: in the step that completes the assignment of a replacement, every
\* field of the configuration is the submitted one, and false or the empty
\* string where the body left the member out.
C14_ReplaceIsWhole ==
    [][\A p \in Posters :
          (ppc[p] = "write" /\ ppc'[p] = "encode") => config' = Submitted(preq[p].body)]_vars

\* The same of a replacement that no other replacement overlapped, for as
\* long as it has not answered.
LoneReplaceIsWhole ==
    \A p \in Posters :
        (ppc[p] = "encode" /\ ~pover[p]) => config = Submitted(preq[p].body)

\* A body with map_enabled alone has replaced the configuration the program
\* started with: the tokens are empty and the other flags false.
LoneReplaceResets ==
    \E p \in Posters :
        /\ ppc[p] = "encode"
        /\ ~pover[p]
        /\ preq[p].body = ConfigDoc(Absent, Absent, Bool(TRUE), Absent, Absent)
        /\ config.MapboxToken = ""
        /\ ~config.ShowRoute
        /\ InitialConfig(Environment).MapboxToken # ""

----------------------------------------------------------------------------
(* Properties of the views (checked under SpecViews) *)

\* A request to endpoint ep starts in this step.
Starts(r, ep) == rpc[r] = "idle" /\ rpc'[r] # "idle" /\ rep'[r] = ep

\* The last answer is that of a replacement, and no other is under way.
Replaced == resp.path = "/admin/config" /\ resp.status = 200 /\ \A p \in Lone : ppc[p] = "idle"

\* C11: a /location request is answered 403 when the map-enabled flag is
\* false as it starts and goes on to answer 200 with the store's content when
\* the flag is true; the flag is the one of the configuration in use, which
\* after a completed replacement is the submitted one.
C11_LocationFollowsFlag ==
    /\ [](/\ \A r \in Readers :
                (rpc[r] = "answered" /\ rep[r] = "location")
                    => \/ rans[r] = Reply(403, ErrorBody("Map is disabled in configuration."))
                       \/ rans[r] = Reply(200, LocationBody(currentLocation))
          /\ Replaced => config = Submitted(resp.req))
    /\ [][\A r \in Readers :
             Starts(r, "location")
                 => IF config.MapEnabled
                    THEN rpc'[r] = "copy"
                    ELSE rpc'[r] = "answered" /\ rans'[r].status = 403]_vars

\* A replacement that switched the map off has completed and a /location
\* request that started afterwards has been answered 403.
C11_Witness ==
    /\ Replaced
    /\ ~Submitted(resp.req).MapEnabled
    /\ \E r \in Readers :
          rpc[r] = "answered" /\ rep[r] = "location" /\ rans[r].status = 403

\* The texts the weather line of the overlay can show.
Conditions == {descriptions[c] : c \in DOMAIN descriptions} \cup {"Unknown", "Unavailable"}

\* C19: a /overlay-data request that finds the overlay flag false answers
\* 200 with the disabled message, and every answer of the endpoint is 200
\* with a content: the disabled message or the formatted text, in which a
\* failed lookup shows as its fallback.
C19_OverlayAlways200 ==
    /\ [](\A r \in Readers :
             (rpc[r] = "answered" /\ rep[r] = "overlay")
                 => /\ rans[r].status = 200
                    /\ rans[r].body.kind = "content"
                    /\ \/ rans[r].body = DisabledContent
                       \/ /\ rans[r].body.location.t \in {"name", "coords"}
                          /\ rans[r].body.conditions \in Conditions
                          /\ rans[r].body.time.from \in {"api", "now"})
    /\ [][\A r \in Readers :
             Starts(r, "overlay")
                 => IF config.OverlayEnabled
                    THEN rpc'[r] = "copy"
                    ELSE rpc'[r] = "answered" /\ rans'[r] = Reply(200, DisabledContent)]_vars

\* All three lookups failed and the answer is 200 with the three fallbacks.
C19_Witness ==
    \E r \in Readers :
        /\ rpc[r] = "answered"
        /\ rep[r] = "overlay"
        /\ rans[r].status = 200
        /\ rans[r].body # DisabledContent
        /\ rans[r].body.location.t = "coords"
        /\ rans[r].body.conditions = "Unavailable"
        /\ rans[r].body.time.from = "now"
        /\ rans[r].body.zone = Display(UTC)

----------------------------------------------------------------------------
(* Properties of the weather adapter (checked under SpecWeather) *)

\* The lookup failed: no answer, no readable body, no JSON, or no current conditions.
Failed(reply) ==
    \/ reply.kind \in {"neterr", "readerr", "text", "null"}
    \/ reply.obj.current.t # "obj"

\* The whole weather code an answer with current conditions carries, 0 when
\* it carries none.
CodeOf(reply) ==
    LET code == reply.obj.current.v.weather_code
    IN IF code.t # "num" THEN 0
       ELSE IF code.v >= 0 THEN code.v \div 10 ELSE -((-code.v) \div 10)

\* C20: after a failed lookup the result is "Unavailable" with temperature,
\* humidity and wind speed 0; after any other the description is the table's
\* entry for the weather code, and "Unknown" exactly when the table has none.
C20_WeatherFallback ==
    lookup # NoLookup =>
        IF Failed(lookup)
        THEN weather = [Temperature |-> 0, Description |-> "Unavailable",
                        Humidity |-> 0, WindSpeed |-> 0]
        ELSE /\ weather.Description \in Conditions \ {"Unavailable"}
             /\ weather.Description = "Unknown" <=> CodeOf(lookup) \notin DOMAIN descriptions
             /\ CodeOf(lookup) = 95 => weather.Description = "Thunderstorm"
             /\ CodeOf(lookup) = 0 => weather.Description = "Clear sky"
             /\ \A reply \in WeatherResponses :
                   (~Failed(reply) /\ CodeOf(reply) = CodeOf(lookup))
                       => getWeather(reply).Description = weather.Description

\* The provider answered without current conditions.
C20_Witness ==
    /\ lookup = WeatherDoc(Absent)
    /\ weather.Description = "Unavailable"

----------------------------------------------------------------------------
(* Properties of a program started without credentials (checked under
   SpecEnvironment) *)

\* C29: when the admin username or the admin password is empty, every
\* request to /admin/login is answered 500, the cookie never becomes logged
\* in, and the configuration is never replaced.
C29_UnconfiguredLocksAdmin ==
    (env.ADMIN_USERNAME = "" \/ env.ADMIN_PASSWORD = "") =>
        /\ resp.path = "/admin/login" => resp.status = 500
        /\ ~LoggedIn(jar)
        /\ \A p \in Posters : ppc[p] = "idle"
        /\ config = InitialConfig(env)
        /\ (resp.path = "/admin/config" /\ resp.method = "POST") => resp.status = 302

\* Without credentials, a login with an empty username and password was
\* answered 500 after an earlier request.
C29_Witness ==
    /\ env.ADMIN_USERNAME = ""
    /\ env.ADMIN_PASSWORD = ""
    /\ nreqs > 1
    /\ resp.path = "/admin/login"
    /\ resp.req = Form("", "")
    /\ resp.status = 500

----------------------------------------------------------------------------
(* Progress on the telemetry lock (checked under SpecLive) *)

\* Every message of the bus has been applied.
AllApplied == nmsgs = MaxMsgs /\ hpc = "idle"

\* C26: a request whose lookups never return holds no lock: while it stays
\* blocked, every message of the bus is still applied and every other
\* request still gets past its read of the store and, on /location, returns.
C26_HungLookupBlocksNobody ==
    /\ [](\A r \in Readers : rpc[r] = "enrich" => r \notin locationMutex.r)
    /\ \A r \in Readers :
          <>[](rpc[r] = "enrich") =>
              /\ <>AllApplied
              /\ \A o \in Readers \ {r} :
                    /\ (rpc[o] = "copy") ~> (rpc[o] # "copy")
                    /\ (rpc[o] = "copy" /\ rep[o] = "location") ~> (rpc[o] = "idle")

\* One request is blocked in its lookups with the copy it took of the empty
\* store, while every message has been applied and the other request has
\* its answer.
C26_Witness ==
    /\ rpc["g1"] = "enrich"
    /\ snap["g1"].Latitude = 0
    /\ AllApplied
    /\ currentLocation.Latitude # 0
    /\ rpc["g2"] = "answered"
    /\ rep["g2"] = "location"
    /\ rans["g2"].status = 200

\* C27: every lock that is taken is released again, by the callback and by
\* both kinds of reader; every message of the bus is applied and every read
\* of the store comes to its end.
C27_NoDeadlock ==
    /\ locationMutex.w ~> ~locationMutex.w
    /\ \A r \in Readers : (r \in locationMutex.r) ~> (r \notin locationMutex.r)
    /\ <>AllApplied
    /\ \A r \in Readers : (rpc[r] = "copy") ~> (rpc[r] # "copy")
    /\ \A r \in Readers : (rpc[r] = "copy" /\ rep[r] = "location") ~> (rpc[r] = "idle")

\* Both readers hold the read lock at once, one for /location and one for
\* /overlay-data, while the bus still has a message to deliver.
C27_Witness ==
    /\ locationMutex.r = Readers
    /\ rep["g1"] = "location"
    /\ rep["g2"] = "overlay"
    /\ nmsgs = 1
    /\ currentLocation # ZeroLocation

----------------------------------------------------------------------------
(* Properties of replayed cookies (checked under SpecReplay) *)

\* C30: after a logout, a request that presents a kept copy of the login
\* cookie is turned away at the gate: while the browser's cookie is logged
\* out, no request to /admin or /admin/config is admitted, whatever cookie
\* it presents, and none starts a replacement of the configuration.
C30_LogoutRevokes ==
    [][(nreqs' = nreqs + 1 /\ kept # {} /\ ~LoggedIn(jar))
          => /\ \A p \in Posters : ppc'[p] = ppc[p]
             /\ resp'.path \in {"/admin", "/admin/config"} => resp'.status = 302]_vars

----------------------------------------------------------------------------
(* Properties of two replacements that overlap (checked under SpecRace) *)

\* C25: once every POST /admin/config has completed, the stored configuration
\* is one of the records that were submitted (or the one the program started
\* with, when none was), in all of its fields.
C25_LastWriterWins ==
    (\A p \in Posters : ppc[p] = "idle") => config \in configs

\* C28: the body of a 200 answer to POST /admin/config is the record that
\* this request submitted.
C28_AnswerIsOwnRecord ==
    (resp.path = "/admin/config" /\ resp.method = "POST" /\ resp.status = 200)
        => resp.body = ConfigBody(Submitted(resp.req))

\* What holds of the answer when no other replacement ran during the request.
LoneAnswerIsOwnRecord ==
    [][\A p \in Posters :
          (ppc[p] = "encode" /\ ppc'[p] = "idle" /\ ~pover[p])
              => resp'.body = ConfigBody(Submitted(resp'.req))]_vars

----------------------------------------------------------------------------
(* Properties of the local-time adapter (checked under SpecTime) *)

\* The provider could not be reached or read, its body is no JSON document,
\* or the document does not carry the status "OK".
TimeFailed(reply) ==
    \/ reply \in {NetErr, ReadErr, Garbage, NullDoc}
    \/ reply.kind = "json" /\ reply.obj.status # Str("OK")

\* C21: on a network failure, a status other than "OK" or an unparsable
\* body, getLocalTime returns the process clock in UTC with the label "UTC";
\* every call returns a time and a label, never an error.
C21_LocalTimeFallback ==
    timeCall # NoCall =>
        /\ DOMAIN timeCall.result = {"time", "zone"}
        /\ TimeFailed(timeCall.reply) =>
               /\ timeCall.result.time = [from |-> "now", zone |-> UTC, at |-> timeCall.at]
               /\ timeCall.result.zone = [words |-> <<"UTC">>, sep |-> "_"]

\* A provider that answers with a status other than "OK", a zone and a timestamp.
C21_Witness ==
    /\ timeCall # NoCall
    /\ timeCall.reply = TimeDoc(Str("FAILED"), Zone(Perth), Stamp(14))
    /\ timeCall.at > 0
    /\ timeCall.result.zone = [words |-> <<"UTC">>, sep |-> "_"]

----------------------------------------------------------------------------
(* Properties of the place-name adapter (checked under SpecPlace) *)

\* The parts of the address that are present: suburb or neighbourhood, city
\* or town or village, state.
PresentParts(reply) ==
    LET a == Member(reply, "address")
    IN IF a.t # "obj" THEN <<>>
       ELSE FirstOf(a.v, <<"suburb", "neighbourhood">>)
            \o FirstOf(a.v, <<"city", "town", "village">>)
            \o FirstOf(a.v, <<"state">>)

\* C22: on a failure getLocationName returns the formatted coordinates; on
\* success it returns every part of the address that is present, and the
\* first segment of the display name only when no part is present.
C22_PlaceNameParts ==
    placeCall # NoCall =>
        LET reply == placeCall.reply
            d == Member(reply, "display_name")
        IN /\ ~Fetched(reply) => placeCall.result = Coordinates(placeCall.lat, placeCall.lon)
           /\ (Fetched(reply) /\ PresentParts(reply) # <<>>) =>
                  placeCall.result = PlaceName(PresentParts(reply))
           /\ (Fetched(reply) /\ PresentParts(reply) = <<>> /\ d.t = "pieces" /\ d.v # <<>>) =>
                  placeCall.result = PlaceName(<<d.v[1].text>>)

\* What getLocationName does return on success: one part when one is present,
\* the first and the last when more are, the middle one left out.
PlaceNameFirstAndLast ==
    (placeCall # NoCall /\ Fetched(placeCall.reply) /\ PresentParts(placeCall.reply) # <<>>) =>
        LET parts == PresentParts(placeCall.reply)
        IN placeCall.result =
               PlaceName(IF Len(parts) = 1 THEN parts ELSE <<parts[1], parts[Len(parts)]>>)

----------------------------------------------------------------------------
(* Properties of the distance computation (checked under SpecDistance) *)

\* C23: calculateDistance returns 0 for two identical points, and the
\* distance from A to B equals the distance from B to A.
C23_DistanceZeroAndSymmetric ==
    distCall # NoCall =>
        /\ distCall.from = distCall.to => distCall.km = 0
        /\ distCall.km = calculateDistance(distCall.to[1], distCall.to[2],
                                           distCall.from[1], distCall.from[2])

\* A distance between two points of different latitude and longitude.
C23_Witness ==
    /\ distCall # NoCall
    /\ distCall.from = <<-32283, 115842>>
    /\ distCall.to = <<45000, -73500>>
    /\ distCall.km > 0

====
